---- MODULE Spec2Model ----
(***************************************************************************)
(* A model of reddit_persona.py: acquisition of a redditor's activity      *)
(* (fetch_reddit_data), the rule cascade that derives a persona            *)
(* (generate_enhanced_persona), the two renderers (save_text_persona,      *)
(* generate_html_persona) and the per-handle loop of main.                 *)
(*                                                                         *)
(* Strings of the program are TLA+ strings.  A text (post title + body, or *)
(* comment body) is a sequence of symbols: each symbol is a word, a        *)
(* punctuation mark, a blank or a single digit, so that the substring and  *)
(* regex tests of the program can be computed on it.  Words of a text are  *)
(* separated by the blank symbol, so no keyword straddles two symbols.     *)
(***************************************************************************)
EXTENDS Integers, Sequences, FiniteSets, TLC

VARIABLES
    usernames,          \* main: the handle list returned by get_usernames
    idx,                \* main: position of the for loop in usernames
    pc,                 \* main: the statement about to run
    raw_data,           \* main: dict username -> RawActivity
    enhanced_personas,  \* main: dict username -> persona
    files,              \* the filesystem: file name -> content written
    posts,              \* fetch_reddit_data: local list being collected
    comments,           \* fetch_reddit_data: local list being collected
    api_failed,         \* the point of acquisition at which the API raised, or "no"
    hashseed,           \* the process's string hash seed: fixes set iteration order
    summarizer,         \* what the summarization pipeline does when called
    summarizer_calls,   \* the texts the summarization pipeline was called with
    html_content        \* main: the string generate_html_persona returned

vars == <<usernames, idx, pc, raw_data, enhanced_personas, files, posts,
          comments, api_failed, hashseed, summarizer, summarizer_calls,
          html_content>>

----------------------------------------------------------------------------
(* Bounds of the model *)

\* longest post listing / comment listing the API hands out in the pipeline
MaxListing == 2
\* longest post list drawn as input of generate_enhanced_persona
MaxPosts == 3
\* longest text (in symbols) drawn as input of the age inference
MaxTextLen == 5
\* most entities of a text drawn as input of the named-entity pass
MaxEnts == 2

----------------------------------------------------------------------------
(* Generic helpers *)

Min(a, b) == IF a <= b THEN a ELSE b

\* all sequences over S of length at most n
BSeq(S, n) == UNION {[1..k -> S] : k \in 0..n}

\* xs[:n]
Take(xs, n) == SubSeq(xs, 1, Min(n, Len(xs)))

Range(xs) == {xs[k] : k \in 1..Len(xs)}

RECURSIVE Rep(_, _)
\* [x] * n
Rep(x, n) == IF n = 0 THEN <<>> ELSE <<x>> \o Rep(x, n - 1)

RECURSIVE SumSeq(_)
SumSeq(ns) == IF ns = <<>> THEN 0 ELSE ns[1] + SumSeq(Tail(ns))

RECURSIVE Join(_, _)
\* sep.join(xs) for a list of strings
Join(xs, sep) ==
    IF xs = <<>> THEN ""
    ELSE IF Len(xs) = 1 THEN xs[1]
    ELSE xs[1] \o sep \o Join(Tail(xs), sep)

\* the dict d extended or overwritten at key k
Put(d, k, v) == [x \in (DOMAIN d) \cup {k} |-> IF x = k THEN v ELSE d[x]]

----------------------------------------------------------------------------
(* str.lower and str.capitalize on the names the model uses *)

\* str.lower() of a subreddit display name
Lower(s) ==
    CASE s = "VisionPro" -> "visionpro"
      [] s = "visionOSdev" -> "visionosdev"
      [] s = "AskReddit" -> "askreddit"
      [] s = "Cats" -> "cats"
      [] OTHER -> s

\* str.capitalize(): first character upper case, the rest lower case
Capitalize(s) ==
    CASE s = "kojied" -> "Kojied"
      [] s = "Hungry-Move-6603" -> "Hungry-move-6603"
      [] s = "name" -> "Name"
      [] s = "age" -> "Age"
      [] s = "occupation" -> "Occupation"
      [] s = "place" -> "Place"
      [] s = "status" -> "Status"
      [] s = "interests" -> "Interests"
      [] s = "about" -> "About"
      [] s = "motivations" -> "Motivations"
      [] s = "goals" -> "Goals"
      [] s = "behaviors" -> "Behaviors"
      [] s = "habits" -> "Habits"
      [] s = "frustrations" -> "Frustrations"
      [] s = "skills" -> "Skills"
      [] s = "personality" -> "Personality"
      [] OTHER -> s

----------------------------------------------------------------------------
(* generate_enhanced_persona: subreddit activity and interest selection *)

general_subreddits == {"askreddit", "pics", "videos", "funny"}

tech_subreddits ==
    {"programming", "chatgpt", "aivideo", "visionpro", "visionosdev", "datascience"}

\* the [:5] slice of the interest selection
TopN == 5

\* the activity dict is kept as a list of <<name, count>> in insertion order

\* subreddit_activity[s] = subreddit_activity.get(s, 0) + 1
ActivityBump(act, s) ==
    IF \E k \in 1..Len(act) : act[k][1] = s
    THEN [k \in 1..Len(act) |->
            IF act[k][1] = s THEN <<s, act[k][2] + 1>> ELSE act[k]]
    ELSE Append(act, <<s, 1>>)

RECURSIVE CountInto(_, _)
\* one counting loop over a list of posts or comments
CountInto(act, items) ==
    IF items = <<>> THEN act
    ELSE CountInto(ActivityBump(act, Lower(items[1].subreddit)), Tail(items))

\* the activity dict after both counting loops
subreddit_activity(data) == CountInto(CountInto(<<>>, data.posts), data.comments)

\* sum(subreddit_activity.values())
total_activity(act) == SumSeq([k \in 1..Len(act) |-> act[k][2]])

\* c >= 0.05 * total_activity.  For 0 <= c, total <= 200 the float comparison
\* agrees with the integer one.
AtLeastFivePercent(c, total) == 20 * c >= total

\* Qualifies without the exclusion of the general subreddits
Qualifies_no_general(e, total) ==
    \/ e[1] \in tech_subreddits
    \/ AtLeastFivePercent(e[2], total)

\* the filter of the list comprehension that feeds sorted()
Qualifies(e, total) ==
    \/ e[1] \in tech_subreddits
    \/ (e[1] \notin general_subreddits /\ AtLeastFivePercent(e[2], total))

\* KeyGreater with the key reduced to the activity count
KeyGreater_count_only(x, y) == x[2] > y[2]

\* key(x) > key(y) for key = (x[0] in tech_subreddits, x[1]); False < True
KeyGreater(x, y) ==
    LET tx == x[1] \in tech_subreddits
        ty == y[1] \in tech_subreddits
    IN  \/ (tx /\ ~ty)
        \/ (tx = ty /\ x[2] > y[2])

RECURSIVE InsertDesc(_, _)
\* put e into a list sorted by descending key, behind the entries whose key
\* is greater or equal (sorted(reverse=True) is stable)
InsertDesc(sorted, e) ==
    IF sorted = <<>> THEN <<e>>
    ELSE IF KeyGreater(e, sorted[1]) THEN <<e>> \o sorted
    ELSE <<sorted[1]>> \o InsertDesc(Tail(sorted), e)

RECURSIVE SortedDesc(_, _)
\* sorted(xs, key=..., reverse=True), accumulating into acc
SortedDesc(acc, xs) ==
    IF xs = <<>> THEN acc
    ELSE SortedDesc(InsertDesc(acc, xs[1]), Tail(xs))

\* sorted([...if...], key=..., reverse=True)[:5]
top_subreddits(act) ==
    LET total == total_activity(act)
        kept  == SelectSeq(act, LAMBDA e : Qualifies(e, total))
    IN  Take(SortedDesc(<<>>, kept), TopN)

\* [s for s, _ in top_subreddits]
TopNames(top) == [k \in 1..Len(top) |-> top[k][1]]

\* interests_of without the fallback for an empty selection
interests_of_join_only(top) == Join(TopNames(top), ", ")

\* ", ".join(...) if top_subreddits else "General discussions"
interests_of(top) ==
    IF top = <<>> THEN "General discussions" ELSE Join(TopNames(top), ", ")

\* any(s in names for s, _ in top_subreddits)
AnyTop(top, names) == \E k \in 1..Len(top) : top[k][1] \in names

----------------------------------------------------------------------------
(* Texts: symbols and the substring tests the program makes on them *)

Blank == " "

Digits == {"0", "1", "2", "3", "4", "5", "6", "7", "8", "9"}

\* int() of one digit character
DigitVal(d) ==
    CASE d = "0" -> 0 [] d = "1" -> 1 [] d = "2" -> 2 [] d = "3" -> 3
      [] d = "4" -> 4 [] d = "5" -> 5 [] d = "6" -> 6 [] d = "7" -> 7
      [] d = "8" -> 8 [] d = "9" -> 9

\* the symbols that I(?:'m| am) matches under re.IGNORECASE
AgePrefixes == {"I'm", "I am", "i'm", "i am"}

\* the sentence separator of text.split(". ")
SentenceEnd == ". "

tech_keywords ==
    {"ar", "vr", "ai", "vision pro", "technology", "tech", "augmented reality",
     "virtual reality", "chatgpt", "visionosdev", "aivideo"}

\* the tech keywords that are substrings of the lower-cased symbol
TechKwIn(sym) ==
    CASE sym = "AR" -> {"ar"}
      [] sym = "VR" -> {"vr"}
      [] sym = "AI" -> {"ai"}
      [] sym = "Vision Pro" -> {"vision pro"}
      [] sym = "technology" -> {"technology", "tech"}
      [] sym = "tech" -> {"tech"}
      [] sym = "chatgpt" -> {"chatgpt"}
      [] sym = "aivideo" -> {"ai", "aivideo"}
      [] sym = " years old" -> {"ar"}
      [] OTHER -> {}

non_tech_phrases ==
    <<"tiktok", "h1b", "adventurous city", "intern season",
      "new york city is equally", "transient being", "wrong party",
      "three years", "nightlife", "orgy dome", "social media", "neighborhood">>

\* any(phrase in sym.lower() for phrase in non_tech_phrases)
NonTechPhraseIn(sym) == sym \in Range(non_tech_phrases)

\* any(kw in sym.lower() for kw in ["suggest", "recommend", "solution", "idea"])
InsightKwIn(sym) == sym \in {"suggest", "recommend", "solution", "idea"}

\* "?" in sym
QuestionIn(sym) == sym = "?"

\* not text.strip()
IsBlankText(text) == \A k \in 1..Len(text) : text[k] = Blank

\* len() of the string a symbol sequence stands for
RECURSIVE CharLen(_)
CharLen(syms) == IF syms = <<>> THEN 0 ELSE Len(syms[1]) + CharLen(Tail(syms))

\* the string a symbol sequence stands for
RECURSIVE StrOf(_)
StrOf(syms) == IF syms = <<>> THEN "" ELSE syms[1] \o StrOf(Tail(syms))

RECURSIVE SplitSentences(_, _)
\* text.split(". "): cur is the sentence being read
SplitSentences(text, cur) ==
    IF text = <<>> THEN <<cur>>
    ELSE IF text[1] = SentenceEnd THEN <<cur>> \o SplitSentences(Tail(text), <<>>)
    ELSE SplitSentences(Tail(text), Append(cur, text[1]))

\* sum(kw in s.lower() for kw in tech_keywords) >= 2
IsTechSentence(s) ==
    Cardinality(UNION {TechKwIn(s[k]) : k \in 1..Len(s)}) >= 2

RECURSIVE JoinSyms(_)
\* " ".join(sentences) on symbol sequences
JoinSyms(ss) ==
    IF ss = <<>> THEN <<>>
    ELSE IF Len(ss) = 1 THEN ss[1]
    ELSE ss[1] \o <<Blank>> \o JoinSyms(Tail(ss))

RECURSIVE TechSentences(_)
\* the loop that fills combined_text with the tech sentences of the texts
TechSentences(texts) ==
    IF texts = <<>> THEN <<>>
    ELSE LET text == texts[1]
             rest == TechSentences(Tail(texts))
         IN  IF IsBlankText(text) THEN rest
             ELSE IF \E k \in 1..Len(text) : NonTechPhraseIn(text[k]) THEN rest
             ELSE SelectSeq(SplitSentences(text, <<>>), IsTechSentence) \o rest

\* the characters kept by [:200]
SummaryInputCap == 200

RECURSIVE WholeSymbolsWithin(_, _)
\* the longest prefix of symbols that fits into n characters
WholeSymbolsWithin(syms, n) ==
    IF syms = <<>> \/ Len(syms[1]) > n THEN <<>>
    ELSE <<syms[1]>> \o WholeSymbolsWithin(Tail(syms), n - Len(syms[1]))

\* " ".join(combined_text)[:200]: the symbols kept whole, and the length in
\* characters of the slice (the last symbol may be cut)
combined_text_of(texts) ==
    LET joined == JoinSyms(TechSentences(texts))
    IN  [syms |-> WholeSymbolsWithin(joined, SummaryInputCap),
         len  |-> Min(CharLen(joined), SummaryInputCap)]

\* the outputs the summarization oracle may give
SummaryOutputs == {<<"loves", Blank, "tiktok", Blank, "tech">>}

\* what a call of the summarizer does: it raises, or returns one of the outputs
SummarizerBehaviours ==
    {[raises |-> TRUE, out |-> <<>>]}
        \cup {[raises |-> FALSE, out |-> o] : o \in SummaryOutputs}

RECURSIVE CollapseBlanks(_)
\* .replace("  ", " "): one left-to-right pass over non-overlapping pairs
CollapseBlanks(syms) ==
    IF Len(syms) < 2 THEN syms
    ELSE IF syms[1] = Blank /\ syms[2] = Blank
         THEN <<Blank>> \o CollapseBlanks(Tail(Tail(syms)))
    ELSE <<syms[1]>> \o CollapseBlanks(Tail(syms))

RECURSIVE Strip(_)
\* str.strip()
Strip(syms) ==
    IF syms = <<>> THEN <<>>
    ELSE IF syms[1] = Blank THEN Strip(Tail(syms))
    ELSE IF syms[Len(syms)] = Blank THEN Strip(SubSeq(syms, 1, Len(syms) - 1))
    ELSE syms

RECURSIVE CleanSummary(_, _)
\* for phrase in non_tech_phrases:
\*     summary = summary.replace(phrase, "").replace("  ", " ").strip()
CleanSummary(syms, phrases) ==
    IF phrases = <<>> THEN syms
    ELSE CleanSummary(
            Strip(CollapseBlanks(SelectSeq(syms, LAMBDA y : y # phrases[1]))),
            Tail(phrases))

\* the templated sentence summary starts as
FallbackSummary(username) ==
    Capitalize(username)
      \o " is interested in AR/VR and AI technologies, engaging in related discussions."

\* summary when the failure of the summarizer call leaves no sentence behind
summary_of_unhandled(texts, username) ==
    IF combined_text_of(texts).len = 0
    THEN FallbackSummary(username)
    ELSE StrOf(CleanSummary(summarizer.out, non_tech_phrases))

\* summary after the try/except around the summarizer call
summary_of(texts, username) ==
    IF combined_text_of(texts).len = 0 \/ summarizer.raises
    THEN FallbackSummary(username)
    ELSE StrOf(CleanSummary(summarizer.out, non_tech_phrases))

\* sum(1 for t in all_texts if "?" in t)
question_count(texts) ==
    Cardinality({k \in 1..Len(texts) : \E j \in 1..Len(texts[k]) : QuestionIn(texts[k][j])})

\* sum(1 for t in all_texts if any(kw in t.lower() for kw in [...]))
insight_count(texts) ==
    Cardinality({k \in 1..Len(texts) : \E j \in 1..Len(texts[k]) : InsightKwIn(texts[k][j])})

engagement_style_of(texts) ==
    IF 10 * insight_count(texts) > 3 * Len(texts)
        THEN "frequently shares insights"
    ELSE IF 10 * question_count(texts) > 3 * Len(texts)
        THEN "often asks questions"
    ELSE "actively discusses topics"

----------------------------------------------------------------------------
(* generate_enhanced_persona: name and place *)

\* the default name, f"{username.capitalize()} User"
DefaultName(username) == Capitalize(username) \o " User"

\* location_map.values(), in the dict's order
location_values ==
    <<"New York City, NY", "New York City, NY", "Trier, Germany", "Germany",
      "London, UK", "San Francisco, CA", "Boston, MA", "Toronto, Canada",
      "California, USA">>

\* location_map[subreddit]
location_map(s) ==
    CASE s = "newyorkcity" -> "New York City, NY"
      [] s = "asknyc" -> "New York City, NY"
      [] s = "trier" -> "Trier, Germany"
      [] s = "germany" -> "Germany"
      [] s = "london" -> "London, UK"
      [] s = "sanfrancisco" -> "San Francisco, CA"
      [] s = "boston" -> "Boston, MA"
      [] s = "toronto" -> "Toronto, Canada"
      [] s = "california" -> "California, USA"

\* the label the NER model gives the symbol as an entity, "" when it is none
NerLabel(sym) ==
    CASE sym \in {"Sam", "Alex", "Manhattan", "Bob"} -> "PERSON"
      [] sym \in {"Boston", "Germany", "Paris"} -> "GPE"
      [] OTHER -> ""

\* doc.ents: the entities of a text, in order
Ents(text) == SelectSeq(text, LAMBDA y : NerLabel(y) # "")

\* ent.text.lower() in loc.lower(), for the entity symbols of the model
EntInLocation(ent, loc) ==
    \/ (ent = "Boston" /\ loc = "Boston, MA")
    \/ (ent = "Germany" /\ loc \in {"Trier, Germany", "Germany"})

\* the PERSON test of the entity loop: not in the blocklist, contains a common
\* name, and is no substring of a location
PersonQualifies(ent) ==
    /\ NerLabel(ent) = "PERSON"
    /\ ent # "Manhattan"
    /\ ent \in {"Sam", "Alex"}
    /\ ~ \E k \in 1..Len(location_values) : EntInLocation(ent, location_values[k])

\* the GPE test of the entity loop
GpeQualifies(ent) ==
    /\ NerLabel(ent) = "GPE"
    /\ \E k \in 1..Len(location_values) : EntInLocation(ent, location_values[k])

\* next(loc for loc in location_map.values() if ent.text.lower() in loc.lower())
FirstLocation(ent) ==
    location_values[
        CHOOSE k \in 1..Len(location_values) :
            /\ EntInLocation(ent, location_values[k])
            /\ \A j \in 1..(k - 1) : ~EntInLocation(ent, location_values[j])]

RECURSIVE ScanEnts(_, _)
\* for ent in doc.ents: the first qualifying entity sets name or city and
\* ends the loop over this text's entities
ScanEnts(ents, nc) ==
    IF ents = <<>> THEN nc
    ELSE IF PersonQualifies(ents[1]) THEN [nc EXCEPT !.name = ents[1]]
    ELSE IF GpeQualifies(ents[1]) THEN [nc EXCEPT !.city = FirstLocation(ents[1])]
    ELSE ScanEnts(Tail(ents), nc)

RECURSIVE ScanTexts(_, _, _)
\* for text in all_texts: ... ; leaves once name and city are both resolved
ScanTexts(texts, nc, username) ==
    IF texts = <<>> THEN nc
    ELSE LET after == ScanEnts(Ents(texts[1]), nc)
         IN  IF after.name # DefaultName(username) /\ after.city # "Unknown"
             THEN after
             ELSE ScanTexts(Tail(texts), after, username)

prioritized_cities == {"newyorkcity", "asknyc"}

city_subreddits == {"sanfrancisco", "boston", "toronto", "london", "trier"}

\* the city of the first entry of a list of activity entries, "Unknown"
\* when the list is empty (the loop ends without a break)
FirstCity(entries) ==
    IF entries = <<>> THEN "Unknown" ELSE location_map(entries[1][1])

RECURSIVE InsertByCount(_, _)
InsertByCount(sorted, e) ==
    IF sorted = <<>> THEN <<e>>
    ELSE IF e[2] > sorted[1][2] THEN <<e>> \o sorted
    ELSE <<sorted[1]>> \o InsertByCount(Tail(sorted), e)

RECURSIVE SortedByCount(_, _)
\* sorted(subreddit_activity.items(), key=lambda x: x[1], reverse=True)
SortedByCount(acc, xs) ==
    IF xs = <<>> THEN acc
    ELSE SortedByCount(InsertByCount(acc, xs[1]), Tail(xs))

\* the three subreddit-based city rules, in order
city_from_subreddits(act) ==
    LET total == total_activity(act)
        c1 == FirstCity(SelectSeq(act, LAMBDA e :
                  e[1] \in prioritized_cities /\ 20 * e[2] >= total))
        c2 == FirstCity(SelectSeq(SortedByCount(<<>>, act), LAMBDA e :
                  e[1] \in city_subreddits /\ 2 * e[2] >= total))
        c3 == FirstCity(SelectSeq(act, LAMBDA e :
                  e[1] = "california" /\ 10 * e[2] >= 7 * total))
    IN  IF c1 # "Unknown" THEN c1 ELSE IF c2 # "Unknown" THEN c2 ELSE c3

\* name and city after the subreddit rules and the named-entity pass
name_and_city(act, texts, username) ==
    LET start == [name |-> DefaultName(username), city |-> city_from_subreddits(act)]
    IN  IF start.city = "Unknown" THEN ScanTexts(texts, start, username) ELSE start

----------------------------------------------------------------------------
(* generate_enhanced_persona: age, occupation, about, sources *)

\* the age brackets; the en dash of the program's strings is written "-"
AgeDefault == "20-30 (estimated)"

\* the position behind the run of blanks that starts at k
RECURSIVE SkipBlanks(_, _)
SkipBlanks(text, k) ==
    IF k <= Len(text) /\ text[k] = Blank THEN SkipBlanks(text, k + 1) ELSE k

\* the pattern I(?:'m| am)\s+(\d{2})(?:yo| years old)? matches at symbol i
AgeMatchAt(text, i) ==
    /\ text[i] \in AgePrefixes
    /\ i + 1 <= Len(text) /\ text[i + 1] = Blank
    /\ LET d == SkipBlanks(text, i + 1)
       IN  d + 1 <= Len(text) /\ text[d] \in Digits /\ text[d + 1] \in Digits

\* re.search(age_pattern, text, re.IGNORECASE): group(1) of the leftmost
\* match as its two digit characters, <<>> when there is no match
AgeSearch(text) ==
    IF \E i \in 1..Len(text) : AgeMatchAt(text, i)
    THEN LET i == CHOOSE i \in 1..Len(text) :
                      AgeMatchAt(text, i) /\ \A j \in 1..(i - 1) : ~AgeMatchAt(text, j)
             d == SkipBlanks(text, i + 1)
         IN  <<text[d], text[d + 1]>>
    ELSE <<>>

\* int(match.group(1))
AgeInt(g) == 10 * DigitVal(g[1]) + DigitVal(g[2])

AgeLow == 15
AgeHigh == 80

\* match and 15 <= int(match.group(1)) <= 80
AgeAccepted(text) ==
    LET g == AgeSearch(text)
    IN  g # <<>> /\ AgeLow <= AgeInt(g) /\ AgeInt(g) <= AgeHigh

\* the karma below which the young-subreddit bracket applies
YoungKarma == 5000

\* the rule-based bracket
age_bracket(top, karma) ==
    IF AnyTop(top, {"teenagers", "genz", "visionpro", "visionosdev", "civ5",
                    "manorlords"}) /\ karma < YoungKarma
        THEN "18-24 (estimated)"
    ELSE IF AnyTop(top, {"studying", "university", "college"})
        THEN "22-26 (estimated)"
    ELSE IF AnyTop(top, {"careerguidance", "jobs"})
        THEN "25-35 (estimated)"
    ELSE AgeDefault

\* the age after the loop over all_texts: the first accepted match wins
age_of(top, karma, texts) ==
    IF \E k \in 1..Len(texts) : AgeAccepted(texts[k])
    THEN LET k == CHOOSE k \in 1..Len(texts) :
                      AgeAccepted(texts[k]) /\ \A j \in 1..(k - 1) : ~AgeAccepted(texts[j])
             g == AgeSearch(texts[k])
         IN  g[1] \o g[2] \o " (inferred)"
    ELSE age_bracket(top, karma)

TechUpvotesMin == 150
TechActivityMin == 20

\* sum(p["upvotes"] for p in posts if p["subreddit"].lower() in tech_subreddits)
tech_upvotes(ps) ==
    SumSeq([k \in 1..Len(ps) |->
               IF Lower(ps[k].subreddit) \in tech_subreddits THEN ps[k].upvotes ELSE 0])

\* sum(subreddit_activity.get(s, 0) for s in tech_subreddits)
tech_activity(act) ==
    SumSeq([k \in 1..Len(act) |-> IF act[k][1] \in tech_subreddits THEN act[k][2] ELSE 0])

occupation_of(top, ps, act) ==
    IF AnyTop(top, tech_subreddits) /\ tech_upvotes(ps) > TechUpvotesMin
            /\ tech_activity(act) > TechActivityMin
        THEN "Tech Professional"
    ELSE IF AnyTop(top, tech_subreddits) THEN "Computer Science Student"
    ELSE IF AnyTop(top, {"studying", "university", "college"}) THEN "Graduate Student"
    ELSE IF AnyTop(top, {"jobs", "careerguidance"}) THEN "Job Seeker"
    ELSE "Reddit Enthusiast"

\* str.lower() of an occupation
LowerOccupation(o) ==
    CASE o = "Tech Professional" -> "tech professional"
      [] o = "Computer Science Student" -> "computer science student"
      [] o = "Graduate Student" -> "graduate student"
      [] o = "Job Seeker" -> "job seeker"
      [] o = "Reddit Enthusiast" -> "reddit enthusiast"

\* top_subreddits[0][0] if top_subreddits else "various topics"
primary_interest(top) == IF top = <<>> THEN "various topics" ELSE top[1][1]

\* the about template
about_of(name, occupation, act, top, style, summary) ==
    LET tech == AnyTop(top, tech_subreddits)
    IN  name \o " is a " \o LowerOccupation(occupation)
          \o " who actively engages in " \o ToString(Len(act))
          \o " Reddit communities, with a strong focus on " \o primary_interest(top)
          \o ". They " \o style \o ", often sharing their passion for "
          \o (IF tech THEN "AR/VR and AI technologies" ELSE "diverse topics")
          \o ". " \o summary
          \o " Their posts and comments reveal a curious mind, eager to explore "
          \o (IF tech THEN "emerging tech trends" ELSE "varied interests")
          \o " and connect with others in "
          \o (IF tech THEN "tech" ELSE "online") \o " communities."

\* the urls that occur in the model
Urls ==
    <<"https://i.redd.it/a.png",
      "https://www.reddit.com/r/visionosdev/comments/1/x/",
      "https://www.reddit.com/r/cats/comments/2/y/c/">>

\* the iteration orders the model draws the process's hash seed from
HashSeeds == {Urls, <<Urls[3], Urls[2], Urls[1]>>}

\* xs[:2] of the citation lists
SourceSlice == 2

\* [p["url"] for p in posts[:2]] + [c["url"] for c in comments[:2]]
SourceUrls(ps, cs) ==
    LET p2 == Take(ps, SourceSlice)
        c2 == Take(cs, SourceSlice)
    IN  [k \in 1..Len(p2) |-> p2[k].url] \o [k \in 1..Len(c2) |-> c2[k].url]

\* ListOfSet without the set: the collected urls as they come
ListOfSet_keep_all(xs) == xs

\* list(set(xs)): the distinct elements, in the iteration order the process's
\* hash seed gives them
ListOfSet(xs) == SelectSeq(hashseed, LAMBDA u : u \in Range(xs))

----------------------------------------------------------------------------
(* generate_enhanced_persona *)

\* the keys of a persona, in the order of the returned dict
PersonaKeys ==
    <<"name", "age", "occupation", "place", "status", "interests", "about",
      "motivations", "goals", "behaviors", "habits", "frustrations", "skills",
      "personality", "sources">>

\* persona_without_data with the skills of the tech branch left in
persona_without_data_stale(username) ==
    [name |-> DefaultName(username), age |-> "Unknown", occupation |-> "Unknown",
     place |-> "Unknown", status |-> "Unknown", interests |-> "Unknown",
     about |-> "No data available for u/" \o username \o ".",
     motivations |-> "Unknown", goals |-> "Unknown", behaviors |-> "Unknown",
     habits |-> "Unknown", frustrations |-> "Unknown",
     skills |-> "Python, JavaScript, Unity", personality |-> "Unknown",
     sources |-> <<>>]

\* the persona returned when data["exists"] is false
persona_without_data(username) ==
    [name |-> DefaultName(username),
     age |-> "Unknown",
     occupation |-> "Unknown",
     place |-> "Unknown",
     status |-> "Unknown",
     interests |-> "Unknown",
     about |-> "No data available for u/" \o username \o ".",
     motivations |-> "Unknown",
     goals |-> "Unknown",
     behaviors |-> "Unknown",
     habits |-> "Unknown",
     frustrations |-> "Unknown",
     skills |-> "Unknown",
     personality |-> "Unknown",
     sources |-> <<>>]

\* kw in interests.lower(): among the subreddit names of the model only the
\* keyword itself contains it
InterestsMention(top, kw) == \E k \in 1..Len(top) : top[k][1] = kw

\* personality_of with "and" for the "or" of the AR/VR test
personality_of_both(top) ==
    IF InterestsMention(top, "visionpro") /\ InterestsMention(top, "visionosdev")
        THEN "Curious, innovative, and tech-enthusiastic."
    ELSE IF AnyTop(top, tech_subreddits) THEN "Curious, tech-savvy, and collaborative."
    ELSE "Engaged, curious, and community-oriented."

\* default_fields["personality"] after the AR/VR update
personality_of(top) ==
    IF InterestsMention(top, "visionpro") \/ InterestsMention(top, "visionosdev")
        THEN "Curious, innovative, and tech-enthusiastic."
    ELSE IF AnyTop(top, tech_subreddits) THEN "Curious, tech-savvy, and collaborative."
    ELSE "Engaged, curious, and community-oriented."

motivations_of(top) ==
    IF InterestsMention(top, "visionpro") \/ InterestsMention(top, "visionosdev")
        THEN "Passionate about advancing AR/VR technology and sharing insights."
    ELSE IF AnyTop(top, tech_subreddits)
        THEN "Seeks to connect and share knowledge in tech communities."
    ELSE "Seeks to connect and share knowledge in online communities."

goals_of(top) ==
    IF InterestsMention(top, "visionpro") \/ InterestsMention(top, "visionosdev")
        THEN "Build expertise in AR/VR development for innovative applications."
    ELSE IF AnyTop(top, tech_subreddits)
        THEN "Develop expertise in AR/VR and AI technologies."
    ELSE "Contribute meaningfully to discussions and stay updated on interests."

frustrations_of(top) ==
    IF InterestsMention(top, "visionpro") \/ InterestsMention(top, "visionosdev")
        THEN "Keeping pace with fast-evolving AR/VR tech and community discussions."
    ELSE IF AnyTop(top, tech_subreddits)
        THEN "Keeping up with rapid tech advancements and managing multiple discussions."
    ELSE "Navigating diverse online communities and managing information overload."

skills_of(top) ==
    IF AnyTop(top, tech_subreddits \cup {"python", "javascript", "unity"})
        THEN "Python, JavaScript, Unity"
    ELSE IF AnyTop(top, {"studying", "university", "college"})
        THEN "Python, R, SQL, data analysis"
    ELSE "Unknown"

\* all_texts: the texts of the posts, then those of the comments
all_texts(data) ==
    [k \in 1..Len(data.posts) |-> data.posts[k].text]
      \o [k \in 1..Len(data.comments) |-> data.comments[k].text]

\* the persona built from an existing user's data
persona_with_data(data, username) ==
    LET act   == subreddit_activity(data)
        top   == top_subreddits(act)
        texts == all_texts(data)
        nc    == name_and_city(act, texts, username)
        occ   == occupation_of(top, data.posts, act)
    IN  [name |-> nc.name,
         age |-> age_of(top, data.karma, texts),
         occupation |-> occ,
         place |-> nc.city,
         status |-> "Unknown",
         interests |-> interests_of(top),
         about |-> about_of(nc.name, occ, act, top, engagement_style_of(texts),
                            summary_of(texts, username)),
         motivations |-> motivations_of(top),
         goals |-> goals_of(top),
         behaviors |-> "Participates in " \o ToString(Len(act)) \o " subreddits with "
                         \o ToString(data.karma) \o " total karma.",
         habits |-> "Regularly posts and comments on Reddit, focusing on "
                      \o primary_interest(top) \o ".",
         frustrations |-> frustrations_of(top),
         skills |-> skills_of(top),
         personality |-> personality_of(top),
         sources |-> ListOfSet(SourceUrls(data.posts, data.comments))]

generate_enhanced_persona(data, username) ==
    IF ~data.exists THEN persona_without_data(username)
    ELSE persona_with_data(data, username)

\* the texts generate_enhanced_persona calls the summarizer with: none after
\* the early return, and combined_text when "if combined_text:" lets it pass
summarizer_inputs(data) ==
    IF ~data.exists THEN <<>>
    ELSE LET combined_text == combined_text_of(all_texts(data))
         IN  IF combined_text.len # 0 THEN <<combined_text>> ELSE <<>>

----------------------------------------------------------------------------
(* The renderers *)

\* s[:30] of a url
Trunc30(s) ==
    CASE s = "https://www.reddit.com/r/visionosdev/comments/1/x/"
            -> "https://www.reddit.com/r/visio"
      [] s = "https://www.reddit.com/r/cats/comments/2/y/c/"
            -> "https://www.reddit.com/r/cats/"
      [] OTHER -> s

RECURSIVE TextLines(_, _)
\* the loop over persona.items() that skips the "sources" key
TextLines(persona, keys) ==
    IF keys = <<>> THEN ""
    ELSE (IF keys[1] # "sources"
          THEN "- " \o Capitalize(keys[1]) \o ": " \o persona[keys[1]]
                 \o " [Sources: " \o Join(persona.sources, ", ") \o "]\n"
          ELSE "")
         \o TextLines(persona, Tail(keys))

\* the text save_text_persona writes
persona_text(persona, username) ==
    "User Persona for u/" \o username \o "\n" \o TextLines(persona, PersonaKeys)

\* the file save_text_persona opens
TextFile(username) == username \o "_persona.txt"

\* the file main writes the html to
HtmlFile(username) == username \o "_persona.html"

\* source_links of generate_html_persona (the class and target attributes of
\* the anchor are constant and left out)
source_links(srcs) ==
    Join([k \in 1..Len(srcs) |->
             "<li><a href=\"" \o srcs[k] \o "\">" \o Trunc30(srcs[k]) \o "...</a></li>"],
         "")

\* generate_html_persona citing the collected urls without list(set(...))
generate_html_persona_raw_urls(persona, username, raw) ==
    <<username, persona.name, persona.about, persona.age, persona.occupation,
      persona.place, persona.status, persona.interests, persona.motivations,
      persona.goals, persona.behaviors, persona.habits, persona.skills,
      persona.personality, persona.frustrations,
      source_links(SourceUrls(raw.posts, raw.comments)), username>>

\* generate_html_persona: the values interpolated into the template, in the
\* order of the document (the template's constant markup is left out)
generate_html_persona(persona, username, raw) ==
    <<username, persona.name, persona.about, persona.age, persona.occupation,
      persona.place, persona.status, persona.interests, persona.motivations,
      persona.goals, persona.behaviors, persona.habits, persona.skills,
      persona.personality, persona.frustrations,
      source_links(ListOfSet(SourceUrls(raw.posts, raw.comments))), username>>

----------------------------------------------------------------------------
(* fetch_reddit_data and main *)

EmptyDict == [x \in {} |-> 0]

\* fetch_failure_result that hands back what was collected before the failure
fetch_failure_result_partial(username, ps, cs) ==
    [username |-> username, posts |-> ps, comments |-> cs, karma |-> 0,
     exists |-> FALSE]

\* the dict fetch_reddit_data returns from its except branch
fetch_failure_result(username, ps, cs) ==
    [username |-> username, posts |-> <<>>, comments |-> <<>>, karma |-> 0,
     exists |-> FALSE]

\* the dict fetch_reddit_data returns at the end of its try block
fetch_success_result(username, ps, cs, karma) ==
    [username |-> username, posts |-> ps, comments |-> cs, karma |-> karma,
     exists |-> TRUE]

Post(text, sub, url, up) ==
    [text |-> text, subreddit |-> sub, url |-> url, upvotes |-> up, num_comments |-> 0]

Comment(text, sub, url) == [text |-> text, subreddit |-> sub, url |-> url]

TechText == <<"AR", Blank, "VR", Blank, "Vision Pro", Blank, "?">>
PlainText == <<"hello", Blank>>
NerText == <<"Sam", Blank, "likes", Blank, "Boston">>
IdeaText == <<"idea", Blank, "I'm", Blank, "3", "0">>

PostVisionPro == Post(TechText, "VisionPro", Urls[1], 200)
PostVisionOsDev == Post(PlainText, "visionOSdev", Urls[2], 10)
PostAskReddit == Post(NerText, "AskReddit", Urls[1], 5)
PostCats == Post(PlainText, "Cats", Urls[3], 1)
PostJobs == Post(PlainText, "jobs", Urls[2], 1)

CommentCats == Comment(PlainText, "cats", Urls[3])

\* the submissions and comments the platform API hands out in the pipeline
ApiPosts == {PostVisionPro, PostCats}
ApiComments == {CommentCats}
ApiKarma == {7000}

\* the handle lists get_usernames returns
HandleLists == {<<>>, <<"kojied">>, <<"kojied", "Hungry-Move-6603">>}

user == usernames[idx]

Init ==
    /\ usernames \in HandleLists
    /\ idx = 1
    /\ pc = "for"
    /\ raw_data = EmptyDict
    /\ enhanced_personas = EmptyDict
    /\ files = EmptyDict
    /\ posts = <<>>
    /\ comments = <<>>
    /\ api_failed = "no"
    /\ hashseed \in HashSeeds
    /\ summarizer \in SummarizerBehaviours
    /\ summarizer_calls = <<>>
    /\ html_content = <<>>

\* for username in usernames: the next handle, or the end of the loop
ForNext ==
    /\ pc = "for"
    /\ IF idx <= Len(usernames)
       THEN pc' = "redditor_id" /\ api_failed' = "no"
       ELSE pc' = "access_html_files" /\ UNCHANGED api_failed
    /\ posts' = <<>>
    /\ comments' = <<>>
    /\ UNCHANGED <<usernames, idx, raw_data, enhanced_personas, files,
                   hashseed, summarizer, summarizer_calls, html_content>>

\* redditor.id answers: the user exists
RedditorId ==
    /\ pc = "redditor_id"
    /\ pc' = "submissions"
    /\ UNCHANGED <<usernames, idx, raw_data, enhanced_personas, files, posts,
                   comments, api_failed, hashseed, summarizer,
                   summarizer_calls, html_content>>

\* one iteration of the loop over redditor.submissions.new(limit=100)
NextSubmission ==
    /\ pc = "submissions"
    /\ Len(posts) < MaxListing
    /\ \E p \in ApiPosts : posts' = Append(posts, p)
    /\ UNCHANGED <<usernames, idx, pc, raw_data, enhanced_personas, files,
                   comments, api_failed, hashseed, summarizer,
                   summarizer_calls, html_content>>

\* the listing of submissions is exhausted
SubmissionsEnd ==
    /\ pc = "submissions"
    /\ pc' = "comments"
    /\ UNCHANGED <<usernames, idx, raw_data, enhanced_personas, files, posts,
                   comments, api_failed, hashseed, summarizer,
                   summarizer_calls, html_content>>

\* one iteration of the loop over redditor.comments.new(limit=100)
NextComment ==
    /\ pc = "comments"
    /\ Len(comments) < MaxListing
    /\ \E c \in ApiComments : comments' = Append(comments, c)
    /\ UNCHANGED <<usernames, idx, pc, raw_data, enhanced_personas, files,
                   posts, api_failed, hashseed, summarizer, summarizer_calls,
                   html_content>>

\* the listing of comments is exhausted
CommentsEnd ==
    /\ pc = "comments"
    /\ pc' = "karma"
    /\ UNCHANGED <<usernames, idx, raw_data, enhanced_personas, files, posts,
                   comments, api_failed, hashseed, summarizer,
                   summarizer_calls, html_content>>

\* the karma attributes are read and the try block returns
FetchReturn ==
    /\ pc = "karma"
    /\ \E k \in ApiKarma :
          raw_data' = Put(raw_data, user, fetch_success_result(user, posts, comments, k))
    /\ pc' = "if_exists"
    /\ UNCHANGED <<usernames, idx, enhanced_personas, files, posts, comments,
                   api_failed, hashseed, summarizer, summarizer_calls,
                   html_content>>

FetchPoints == {"redditor_id", "submissions", "comments", "karma"}

\* the API raises at the current point of acquisition: the except branch
\* logs the error and returns
FetchRaises ==
    /\ pc \in FetchPoints
    /\ api_failed' = pc
    /\ raw_data' = Put(raw_data, user, fetch_failure_result(user, posts, comments))
    /\ pc' = "if_exists"
    /\ UNCHANGED <<usernames, idx, enhanced_personas, files, posts, comments,
                   hashseed, summarizer, summarizer_calls, html_content>>

\* if raw_data[username]["exists"]: ... else: the handle is skipped
IfExists ==
    /\ pc = "if_exists"
    /\ IF raw_data[user].exists
       THEN pc' = "generate" /\ UNCHANGED idx
       ELSE pc' = "for" /\ idx' = idx + 1
    /\ UNCHANGED <<usernames, raw_data, enhanced_personas, files, posts,
                   comments, api_failed, hashseed, summarizer,
                   summarizer_calls, html_content>>

\* persona = generate_enhanced_persona(...); enhanced_personas[username] = persona
Generate ==
    /\ pc = "generate"
    /\ enhanced_personas' =
          Put(enhanced_personas, user, generate_enhanced_persona(raw_data[user], user))
    /\ summarizer_calls' = summarizer_calls \o summarizer_inputs(raw_data[user])
    /\ pc' = "save_text_persona"
    /\ UNCHANGED <<usernames, idx, raw_data, files, posts, comments,
                   api_failed, hashseed, summarizer, html_content>>

\* save_text_persona(persona, username): the file is opened and written
SaveText ==
    /\ pc = "save_text_persona"
    /\ files' = Put(files, TextFile(user), persona_text(enhanced_personas[user], user))
    /\ pc' = "generate_html_persona"
    /\ UNCHANGED <<usernames, idx, raw_data, enhanced_personas, posts,
                   comments, api_failed, hashseed, summarizer,
                   summarizer_calls, html_content>>

\* html_content = generate_html_persona(persona, username, raw_data[username])
RenderHtml ==
    /\ pc = "generate_html_persona"
    /\ html_content' = generate_html_persona(enhanced_personas[user], user, raw_data[user])
    /\ pc' = "write_html"
    /\ UNCHANGED <<usernames, idx, raw_data, enhanced_personas, files, posts,
                   comments, api_failed, hashseed, summarizer,
                   summarizer_calls>>

\* with open(...) as f: f.write(html_content); then the next handle
WriteHtml ==
    /\ pc = "write_html"
    /\ files' = Put(files, HtmlFile(user), html_content)
    /\ idx' = idx + 1
    /\ pc' = "for"
    /\ UNCHANGED <<usernames, raw_data, enhanced_personas, posts, comments,
                   api_failed, hashseed, summarizer, summarizer_calls,
                   html_content>>

\* open() raises OSError (directory not writable, disk full): neither
\* save_text_persona nor main has a handler, so the exception leaves main
OpenRaises ==
    /\ pc \in {"save_text_persona", "write_html"}
    /\ pc' = "raised"
    /\ UNCHANGED <<usernames, idx, raw_data, enhanced_personas, files, posts,
                   comments, api_failed, hashseed, summarizer,
                   summarizer_calls, html_content>>

\* access_html_files(usernames): reads the directory and logs; main returns
AccessHtmlFiles ==
    /\ pc = "access_html_files"
    /\ pc' = "done"
    /\ UNCHANGED <<usernames, idx, raw_data, enhanced_personas, files, posts,
                   comments, api_failed, hashseed, summarizer,
                   summarizer_calls, html_content>>

Next ==
    \/ ForNext
    \/ RedditorId
    \/ NextSubmission
    \/ SubmissionsEnd
    \/ NextComment
    \/ CommentsEnd
    \/ FetchReturn
    \/ FetchRaises
    \/ IfExists
    \/ Generate
    \/ SaveText
    \/ RenderHtml
    \/ WriteHtml
    \/ OpenRaises
    \/ AccessHtmlFiles

Spec == Init /\ [][Next]_vars

----------------------------------------------------------------------------
(* generate_enhanced_persona applied to drawn inputs *)

CommentsOtherTech ==
    Rep(Comment(PlainText, "programming", Urls[3]), 2)
        \o Rep(Comment(PlainText, "chatgpt", Urls[3]), 2)
        \o Rep(Comment(PlainText, "aivideo", Urls[2]), 2)
        \o Rep(Comment(PlainText, "datascience", Urls[2]), 2)

\* the posts and comment lists the persona is generated from
PostPool == {PostVisionPro, PostVisionOsDev, PostAskReddit, PostCats, PostJobs}

CommentsMixed ==
    <<Comment(PlainText, "programming", Urls[3]),
      Comment(PlainText, "chatgpt", Urls[3])>> \o Rep(CommentCats, 3)

CommentChoices ==
    {<<>>,
     CommentsOtherTech,
     CommentsMixed,
     Rep(CommentCats, 19),
     Rep(CommentCats, 20),
     <<Comment(IdeaText, "AskReddit", Urls[3]), CommentCats,
       Comment(PlainText, "pics", Urls[1])>>}

PersonaKarma == {0, 5000}

\* the RawActivity records generate_enhanced_persona is applied to
PersonaInputs(username) ==
    {fetch_success_result(username, ps, cs, k) :
        ps \in BSeq(PostPool, MaxPosts), cs \in CommentChoices, k \in PersonaKarma}
    \cup {fetch_failure_result(username, <<>>, <<>>)}

\* the state in which main is about to call generate_enhanced_persona
CallState(username, data) ==
    /\ usernames = <<username>>
    /\ idx = 1
    /\ pc = "generate"
    /\ raw_data = Put(EmptyDict, username, data)
    /\ enhanced_personas = EmptyDict
    /\ files = EmptyDict
    /\ posts = data.posts
    /\ comments = data.comments
    /\ api_failed = "no"
    /\ summarizer_calls = <<>>
    /\ html_content = <<>>

InitPersona ==
    /\ \E u \in {"kojied", "Hungry-Move-6603"} : \E d \in PersonaInputs(u) :
          /\ (d.exists => u = "kojied")
          /\ CallState(u, d)
    /\ hashseed \in HashSeeds
    /\ summarizer \in SummarizerBehaviours

SpecPersona == InitPersona /\ [][Generate]_vars

\* the symbols the texts of the age inference are made of
AgeAlphabet == {"I'm", Blank, "1", "5", "8", "0"}

AgeComments == {<<>>, <<Comment(<<"I am", Blank, "2", "5", "yo">>, "cats", Urls[3])>>}

InitAge ==
    /\ \E t \in BSeq(AgeAlphabet, MaxTextLen) : \E cs \in AgeComments :
          CallState("kojied",
                    fetch_success_result("kojied", <<Post(t, "jobs", Urls[1], 1)>>, cs, 0))
    /\ hashseed = Urls
    /\ summarizer = [raises |-> TRUE, out |-> <<>>]

SpecAge == InitAge /\ [][Generate]_vars

\* the entity symbols the texts of the named-entity pass are made of
NerAlphabet == {"Sam", "Alex", "Bob", "Boston", "Germany"}

\* the comment lists that follow the two drawn posts
NerComments ==
    {<<>>,
     <<Comment(<<"Alex">>, "AskReddit", Urls[3])>>,
     <<Comment(<<"Paris", Blank, "Germany">>, "AskReddit", Urls[3])>>}

\* an existing user with two posts and at most one comment in a subreddit
\* no city rule applies to, so that the named-entity pass runs
InitNer ==
    /\ \E t1 \in BSeq(NerAlphabet, MaxEnts) : \E t2 \in BSeq(NerAlphabet, MaxEnts) :
          \E cs \in NerComments :
             CallState("kojied",
                       fetch_success_result("kojied",
                           <<Post(t1, "AskReddit", Urls[1], 1),
                             Post(t2, "AskReddit", Urls[2], 1)>>, cs, 0))
    /\ hashseed = Urls
    /\ summarizer = [raises |-> TRUE, out |-> <<>>]

SpecNer == InitNer /\ [][Generate]_vars

\* the symbols the texts of the summary input are made of
SummaryAlphabet == {"AR", "VR", "tiktok", SentenceEnd}

\* the comment lists that follow the drawn post: none, ten tech comments
\* (189 characters when joined) and eleven (208 characters)
SummaryComments ==
    {<<>>,
     Rep(Comment(TechText, "AskReddit", Urls[3]), 10),
     Rep(Comment(TechText, "AskReddit", Urls[3]), 11)}

\* an existing user with one drawn post, before generate_enhanced_persona
InitSummary ==
    /\ \E t \in BSeq(SummaryAlphabet, MaxTextLen) : \E cs \in SummaryComments :
          CallState("kojied",
                    fetch_success_result("kojied",
                        <<Post(t, "AskReddit", Urls[1], 1)>>, cs, 0))
    /\ hashseed = Urls
    /\ summarizer \in SummarizerBehaviours

SpecSummary == InitSummary /\ [][Generate]_vars

----------------------------------------------------------------------------
(* Properties *)

\* generate_enhanced_persona has returned for the handle main is working on
Generated == pc = "save_text_persona"

\* the RawActivity and the persona of the handle main is working on
data_now == raw_data[user]
persona_now == enhanced_personas[user]

\* the number of posts and comments in the subreddit, names compared in lower
\* case
Occurrences(data, name) ==
    Cardinality({k \in 1..Len(data.posts) : Lower(data.posts[k].subreddit) = name})
      + Cardinality({k \in 1..Len(data.comments) :
                        Lower(data.comments[k].subreddit) = name})

TotalItems(data) == Len(data.posts) + Len(data.comments)

top_now == top_subreddits(subreddit_activity(data_now))

\* C1 as stated: with exists=false every field of the returned persona is
\* "Unknown" and sources is the empty list.
C1_AllFieldsUnknown ==
    (Generated /\ ~data_now.exists) =>
        /\ \A k \in Range(PersonaKeys) \ {"sources"} : persona_now[k] = "Unknown"
        /\ persona_now.sources = <<>>

\* C1 amended: with exists=false every field but name and about is "Unknown",
\* name is the capitalised handle followed by " User", about is the sentence
\* "No data available for u/<handle>.", and sources is the empty list.
C1_Sentinels ==
    (Generated /\ ~data_now.exists) =>
        /\ \A k \in Range(PersonaKeys) \ {"sources", "name", "about"} :
              persona_now[k] = "Unknown"
        /\ user = "kojied" =>
              /\ persona_now.name = "Kojied User"
              /\ persona_now.about = "No data available for u/kojied."
        /\ user = "Hungry-Move-6603" =>
              /\ persona_now.name = "Hungry-move-6603 User"
              /\ persona_now.about = "No data available for u/Hungry-Move-6603."
        /\ persona_now.sources = <<>>

C1_Witness == Generated /\ ~data_now.exists /\ user = "Hungry-Move-6603"

\* the handle whose acquisition failed last
failed_user == IF pc = "if_exists" THEN usernames[idx] ELSE usernames[idx - 1]

\* C2: whenever the API has raised during an acquisition, at whatever point,
\* fetch_reddit_data has returned to main (nothing was raised past it) and the
\* RawActivity it returned has exists=false, no posts, no comments and karma 0.
C2_FetchNeverRaises ==
    api_failed # "no" =>
        /\ pc \in {"if_exists", "for", "access_html_files", "done"}
        /\ failed_user \in DOMAIN raw_data
        /\ raw_data[failed_user].exists = FALSE
        /\ raw_data[failed_user].posts = <<>>
        /\ raw_data[failed_user].comments = <<>>
        /\ raw_data[failed_user].karma = 0

C2_Witness ==
    /\ api_failed = "karma"
    /\ pc = "if_exists"
    /\ Len(posts) > 0
    /\ Len(comments) > 0

\* C3: no exception leaves main: main never stops with an exception raised
\* while a handle is assembled, rendered or persisted.
C3_MainCompletes == pc # "raised"

\* C4: the selected interest subreddits are at most 5, every tech subreddit
\* comes before every other one, entries of the same class are in
\* non-increasing order of their activity count, and the interests field
\* lists them in that order.
C4_TechFirstThenCount ==
    (Generated /\ data_now.exists) =>
        LET top == top_now
            cnt == [k \in 1..Len(top) |-> Occurrences(data_now, top[k][1])]
        IN  /\ Len(top) <= 5
            /\ \A i, j \in 1..Len(top) : i < j =>
                  /\ (top[j][1] \in tech_subreddits => top[i][1] \in tech_subreddits)
                  /\ ((top[i][1] \in tech_subreddits) = (top[j][1] \in tech_subreddits)
                        => cnt[i] >= cnt[j])
            /\ top # <<>> => persona_now.interests = Join(TopNames(top), ", ")

\* a subreddit with 5% of the activity is cut by the limit of 5, and a
\* non-tech subreddit is listed behind a tech subreddit of smaller count
C4_Witness ==
    /\ Generated /\ data_now.exists
    /\ LET top == top_now
       IN  /\ Len(top) = 5
           /\ Occurrences(data_now, "jobs") > 0
           /\ 20 * Occurrences(data_now, "jobs") >= TotalItems(data_now)
           /\ \A k \in 1..5 : top[k][1] # "jobs"
           /\ \E i, j \in 1..5 :
                 /\ i < j
                 /\ top[i][1] \in tech_subreddits
                 /\ top[j][1] \notin tech_subreddits
                 /\ top[j][2] > top[i][2]

\* C5: no general subreddit is among the selected interests, and a selected
\* subreddit outside the tech set holds at least 5% of the posts and comments
\* together, subreddit names compared in lower case.
C5_GeneralExcludedShareRequired ==
    (Generated /\ data_now.exists) =>
        LET top == top_now
            cnt == [k \in 1..Len(top) |-> Occurrences(data_now, top[k][1])]
        IN  /\ \A k \in 1..Len(top) :
                  /\ top[k][1] \notin general_subreddits
                  /\ top[k][2] = cnt[k]
                  /\ top[k][1] \notin tech_subreddits =>
                        20 * cnt[k] >= TotalItems(data_now)
            /\ top # <<>> => persona_now.interests = Join(TopNames(top), ", ")

\* a subreddit below 5% is left out, one above is kept, a general one is active
C5_Witness ==
    /\ Generated /\ data_now.exists
    /\ Occurrences(data_now, "jobs") > 0
    /\ Occurrences(data_now, "askreddit") > 0
    /\ LET top == top_now
       IN  /\ \A k \in 1..Len(top) : top[k][1] # "jobs"
           /\ \E k \in 1..Len(top) : top[k][1] = "cats"

RECURSIVE RunValue(_, _, _)
\* the number written by the digits of text from position d on, acc read so far
RunValue(text, d, acc) ==
    IF d <= Len(text) /\ text[d] \in Digits
    THEN RunValue(text, d + 1, 10 * acc + DigitVal(text[d]))
    ELSE acc

\* the ages a text reports: the whole numbers that follow "I'm" or "I am"
SelfReportedAges(text) ==
    {RunValue(text, SkipBlanks(text, i + 1), 0) :
        i \in {i \in 1..Len(text) :
                  /\ text[i] \in AgePrefixes
                  /\ i + 1 <= Len(text) /\ text[i + 1] = Blank
                  /\ SkipBlanks(text, i + 1) <= Len(text)
                  /\ text[SkipBlanks(text, i + 1)] \in Digits}}

EstimatedBrackets ==
    {"20-30 (estimated)", "18-24 (estimated)", "22-26 (estimated)", "25-35 (estimated)"}

\* C6: the age is an inferred "NN (inferred)" only when some text reports an
\* age NN with 15 <= NN <= 80, and when every reported age lies outside
\* [15,80] the age is the estimated bracket.
C6_AgeOnlyFromReportedInRange ==
    Generated =>
        LET texts == all_texts(data_now)
            ages  == UNION {SelfReportedAges(texts[k]) : k \in 1..Len(texts)}
        IN  /\ \/ persona_now.age \in EstimatedBrackets
               \/ \E n \in ages :
                     /\ 15 <= n /\ n <= 80
                     /\ persona_now.age = ToString(n) \o " (inferred)"
            /\ (\A n \in ages : n < 15 \/ n > 80) => persona_now.age \in EstimatedBrackets

\* C7: the sources of a persona are at most 4 urls, none of them twice: the
\* urls of the first two posts and the first two comments.
C7_SourcesAtMostFourUnique ==
    (Generated /\ data_now.exists) =>
        LET src == persona_now.sources
        IN  /\ Len(src) <= 4
            /\ \A i, j \in 1..Len(src) : i # j => src[i] # src[j]
            /\ Range(src) =
                  {data_now.posts[k].url : k \in 1..Min(2, Len(data_now.posts))}
                    \cup {data_now.comments[k].url :
                             k \in 1..Min(2, Len(data_now.comments))}

\* many items, and an url that is cited once though collected twice
C7_Witness ==
    /\ Generated /\ data_now.exists
    /\ Len(data_now.posts) >= 3
    /\ Len(data_now.comments) >= 20
    /\ data_now.posts[1].url = data_now.comments[1].url
    /\ Len(persona_now.sources) = 2

\* the text save_text_persona is to write: the heading, then one line for
\* each key but "sources", each ending with the persona's sources
ExpectedText(persona, username) ==
    "User Persona for u/" \o username \o "\n"
      \o Join([k \in 1..14 |->
                  "- " \o Capitalize(PersonaKeys[k]) \o ": " \o persona[PersonaKeys[k]]
                    \o " [Sources: " \o Join(persona.sources, ", ") \o "]\n"], "")

\* C8 as stated: the renderers have no effect beyond the string they return:
\* neither the text renderer nor the html renderer changes a file.
C8_RenderersPure ==
    [][(pc \in {"save_text_persona", "generate_html_persona"}) => (files' = files)]_vars

\* C8 amended: generate_html_persona changes nothing but the string it
\* returns, and cites the urls of the persona's sources in their order;
\* save_text_persona returns nothing and writes <handle>_persona.txt, and
\* only that file, with a text fixed by the persona and the handle.
C8_RenderersEffects ==
    [][/\ pc = "generate_html_persona" =>
            /\ files' = files
            /\ raw_data' = raw_data
            /\ enhanced_personas' = enhanced_personas
            /\ html_content'[16] = source_links(persona_now.sources)
       /\ (pc = "save_text_persona" /\ pc' = "generate_html_persona") =>
            /\ DOMAIN files' = DOMAIN files \cup {user \o "_persona.txt"}
            /\ \A f \in DOMAIN files : f # user \o "_persona.txt" => files'[f] = files[f]
            /\ files'[user \o "_persona.txt"] = ExpectedText(persona_now, user)
            /\ html_content' = html_content]_vars

\* both files of a handle are written and the persona cites two urls
C8_Witness ==
    /\ pc = "for"
    /\ "kojied_persona.txt" \in DOMAIN files
    /\ "kojied_persona.html" \in DOMAIN files
    /\ Len(enhanced_personas["kojied"].sources) = 2
    /\ Len(raw_data["kojied"].comments) = 2

\* C9: an existing handle without posts and comments and with karma 0 gets
\* occupation "Reddit Enthusiast", age "20-30 (estimated)" (the program's
\* string has an en dash) and interests "General discussions".
C9_EmptyActivityDefaults ==
    (/\ Generated /\ data_now.exists
     /\ data_now.posts = <<>> /\ data_now.comments = <<>> /\ data_now.karma = 0) =>
        /\ persona_now.occupation = "Reddit Enthusiast"
        /\ persona_now.age = "20-30 (estimated)"
        /\ persona_now.interests = "General discussions"

C9_Witness ==
    /\ Generated /\ data_now.exists
    /\ data_now.posts = <<>> /\ data_now.comments = <<>> /\ data_now.karma = 0

\* the subreddit is active and holds at least 5% of the posts and comments
HoldsShare(data, name) ==
    /\ Occurrences(data, name) > 0
    /\ 20 * Occurrences(data, name) >= TotalItems(data)

ActiveTech(data) == {t \in tech_subreddits : Occurrences(data, t) > 0}

\* C10 as stated: a handle active in visionosdev and visionpro, each with at
\* least 5% of the activity, has both among its interests and the AR/VR
\* personality, whatever else it is active in.
C10_BothInterests ==
    (/\ Generated /\ data_now.exists
     /\ HoldsShare(data_now, "visionosdev") /\ HoldsShare(data_now, "visionpro")) =>
        LET top == top_now
        IN  /\ \E k \in 1..Len(top) : top[k][1] = "visionosdev"
            /\ \E k \in 1..Len(top) : top[k][1] = "visionpro"
            /\ persona_now.personality = "Curious, innovative, and tech-enthusiastic."

\* C10 amended: such a handle has the AR/VR personality and at least one of
\* the two subreddits among its interests, and both of them unless it is
\* active in all six tech subreddits.
C10_AtLeastOneInterest ==
    (/\ Generated /\ data_now.exists
     /\ HoldsShare(data_now, "visionosdev") /\ HoldsShare(data_now, "visionpro")) =>
        LET top == top_now
            hasDev == \E k \in 1..Len(top) : top[k][1] = "visionosdev"
            hasPro == \E k \in 1..Len(top) : top[k][1] = "visionpro"
        IN  /\ hasDev \/ hasPro
            /\ Cardinality(ActiveTech(data_now)) < 6 => (hasDev /\ hasPro)
            /\ persona_now.personality = "Curious, innovative, and tech-enthusiastic."
            /\ hasDev /\ hasPro =>
                  persona_now.interests = Join(TopNames(top), ", ")

\* active in all six tech subreddits: one of the two is cut by the limit of 5
C10_Witness ==
    /\ Generated /\ data_now.exists
    /\ HoldsShare(data_now, "visionosdev") /\ HoldsShare(data_now, "visionpro")
    /\ Cardinality(ActiveTech(data_now)) = 6
    /\ LET top == top_now
       IN  /\ \E k \in 1..Len(top) : top[k][1] = "visionpro"
           /\ \A k \in 1..Len(top) : top[k][1] # "visionosdev"

----------------------------------------------------------------------------
(* The named-entity pass *)

\* the entities of all the texts, in the order the pass meets them
RECURSIVE AllEnts(_)
AllEnts(texts) ==
    IF texts = <<>> THEN <<>> ELSE Ents(texts[1]) \o AllEnts(Tail(texts))

\* the first qualifying PERSON entity of the texts, the default name when
\* there is none
FirstPerson(texts, username) ==
    LET ps == SelectSeq(AllEnts(texts), PersonQualifies)
    IN  IF ps = <<>> THEN DefaultName(username) ELSE ps[1]

\* the location of the first qualifying GPE entity of the texts, "Unknown"
\* when there is none
FirstPlace(texts) ==
    LET gs == SelectSeq(AllEnts(texts), GpeQualifies)
    IN  IF gs = <<>> THEN "Unknown" ELSE FirstLocation(gs[1])

\* the named-entity pass runs for the handle: no subreddit rule set the city
NerPassRuns ==
    data_now.exists /\ city_from_subreddits(subreddit_activity(data_now)) = "Unknown"

\* C11: when the named-entity pass runs, the persona's name is the first
\* qualifying PERSON entity of the texts in order and its place is the
\* location of the first qualifying GPE entity: a later entity never replaces
\* a name or a place that an earlier one resolved.
C11_FirstMatchWins ==
    (Generated /\ NerPassRuns) =>
        /\ persona_now.name = FirstPerson(all_texts(data_now), user)
        /\ persona_now.place = FirstPlace(all_texts(data_now))

----------------------------------------------------------------------------
(* The summary and its fallback *)

\* t is a substring of s
Embeds(s, t) ==
    \E i \in 1..(Len(s) - Len(t) + 1) : SubSeq(s, i, i + Len(t) - 1) = t

\* the about template around the templated fallback sentence
FallbackInAbout(username) ==
    ". " \o Capitalize(username)
      \o " is interested in AR/VR and AI technologies, engaging in related discussions."
      \o " Their posts and comments reveal a curious mind"

\* " ".join(combined_text) of the handle main is working on, before the cut
filtered_now == JoinSyms(TechSentences(all_texts(data_now)))

\* C12: for an existing handle generate_enhanced_persona returns a persona
\* whatever the summarizer does; when the summarizer raises, or the filtered
\* text is empty, "about" embeds the templated fallback sentence; the
\* summarizer is called only with non-empty text of at most 200 characters,
\* and it is not called at all when the filtered text is empty.
C12_SummaryFallback ==
    /\ \A k \in 1..Len(summarizer_calls) :
          summarizer_calls[k].len \in 1..SummaryInputCap
    /\ (Generated /\ data_now.exists) =>
          /\ user \in DOMAIN enhanced_personas
          /\ (summarizer.raises \/ filtered_now = <<>>) =>
                Embeds(persona_now.about, FallbackInAbout(user))
          /\ (filtered_now = <<>>) => summarizer_calls = <<>>
          /\ (filtered_now # <<>>) =>
                /\ Len(summarizer_calls) = 1
                /\ summarizer_calls[1].len = Min(CharLen(filtered_now), SummaryInputCap)

\* the summarizer was called with a text cut to 200 characters, it raised,
\* and the persona was built
C12_Witness ==
    /\ Generated /\ data_now.exists
    /\ summarizer.raises
    /\ CharLen(filtered_now) > SummaryInputCap
    /\ Len(summarizer_calls) = 1
    /\ summarizer_calls[1].len = SummaryInputCap
    /\ Embeds(persona_now.about, FallbackInAbout(user))

====
